---- MODULE Spec2Model ----
(***************************************************************************)
(* Model of src/main.py: the loader that creates the IMDb schema and bulk  *)
(* loads name.basics, title.basics and title.ratings through COPY.         *)
(*                                                                         *)
(* One process (main) runs at a time against a database that outlives it.  *)
(* The database holds committed state (db); the single connection holds    *)
(* the working copy of its open transaction (txn), which becomes db on     *)
(* commit and is discarded when the connection closes.                     *)
(***************************************************************************)
EXTENDS Integers, Sequences, FiniteSets, TLC

(***************************************************************************)
(* Bounds of the model.                                                    *)
(***************************************************************************)
MaxRuns == 2          \* successive runs of main against the same database
MaxRows == 2          \* data rows in one input file

Keys == {"0000001", "0000002"}   \* identifiers that occur in the input files

(***************************************************************************)
(* Header lists (main.py:13-20) and the order of the tables in main.       *)
(***************************************************************************)
NAME_COLS ==
    <<"nconst", "primaryName", "birthYear", "deathYear", "primaryProfession",
      "knownForTitles">>

TITLE_COLS ==
    <<"tconst", "titleType", "primaryTitle", "originalTitle", "isAdult",
      "startYear", "endYear", "runtimeMinutes", "genres">>

RATING_COLS == <<"tconst", "averageRating", "numVotes">>

Tables == {"name_basics", "title_basics", "title_ratings"}

\* for t in ("name_basics", "title_basics", "title_ratings"): truncate_table
TruncateOrder == <<"name_basics", "title_basics", "title_ratings">>

\* the three copy_tsv calls of main, in program order
LoadOrder == <<"name_basics", "title_basics", "title_ratings">>

\* tsv_header_cols_in_order of the copy_tsv call for table t
HeaderCols(t) ==
    CASE t = "name_basics"   -> NAME_COLS
      [] t = "title_basics"  -> TITLE_COLS
      [] t = "title_ratings" -> RATING_COLS

\* the mapping dictionary of copy_tsv
mapping ==
    [c \in {"nconst", "primaryName", "birthYear", "deathYear",
            "primaryProfession", "knownForTitles", "tconst", "titleType",
            "primaryTitle", "originalTitle", "isAdult", "startYear",
            "endYear", "runtimeMinutes", "genres", "averageRating",
            "numVotes"} |->
        CASE c = "nconst"            -> "nconst"
          [] c = "primaryName"       -> "primary_name"
          [] c = "birthYear"         -> "birth_year"
          [] c = "deathYear"         -> "death_year"
          [] c = "primaryProfession" -> "primary_profession"
          [] c = "knownForTitles"    -> "known_for_titles"
          [] c = "tconst"            -> "tconst"
          [] c = "titleType"         -> "title_type"
          [] c = "primaryTitle"      -> "primary_title"
          [] c = "originalTitle"     -> "original_title"
          [] c = "isAdult"           -> "is_adult"
          [] c = "startYear"         -> "start_year"
          [] c = "endYear"           -> "end_year"
          [] c = "runtimeMinutes"    -> "runtime_minutes"
          [] c = "genres"            -> "genres"
          [] c = "averageRating"     -> "average_rating"
          [] c = "numVotes"          -> "num_votes"]

\* ordered_table_cols = [mapping[c] for c in tsv_header_cols_in_order]
OrderedTableCols(cols) == [j \in 1..Len(cols) |-> mapping[cols[j]]]

(***************************************************************************)
(* The tables of DDL_STATEMENTS: columns, their types, the primary key.    *)
(***************************************************************************)
TableColumns(t) ==
    CASE t = "name_basics" ->
           <<"nconst", "primary_name", "birth_year", "death_year",
             "primary_profession", "known_for_titles">>
      [] t = "title_basics" ->
           <<"tconst", "title_type", "primary_title", "original_title",
             "is_adult", "start_year", "end_year", "runtime_minutes", "genres">>
      [] t = "title_ratings" ->
           <<"tconst", "average_rating", "num_votes">>

ColumnType(col) ==
    CASE col \in {"birth_year", "death_year", "start_year", "end_year",
                  "runtime_minutes", "num_votes"} -> "INTEGER"
      [] col = "is_adult"                          -> "SMALLINT"
      [] col = "average_rating"                    -> "NUMERIC"
      [] OTHER                                     -> "TEXT"

PrimaryKey(t) == TableColumns(t)[1]

ColSet(t) == {TableColumns(t)[j] : j \in 1..Len(TableColumns(t))}

(***************************************************************************)
(* Field values.  A datum is the value that field c of the entity with     *)
(* identifier k has; its text has the form of the type of the column that  *)
(* field belongs to.  The null token of the files is the two characters    *)
(* backslash, N; the database's absent value is NULL.                      *)
(***************************************************************************)
Val(k, c) == [k |-> k, c |-> c]

NullToken == [k |-> "", c |-> "\\N"]
NULL == [k |-> "", c |-> "NULL"]

\* the lexical form of a datum: the type of the column its field is mapped to
LexOf(v) == IF v.k = "text" THEN "TEXT" ELSE ColumnType(mapping[v.c])

\* which lexical forms the input function of a column type accepts
Accepts(type, lex) ==
    CASE type = "TEXT"     -> TRUE
      [] type = "INTEGER"  -> lex \in {"INTEGER", "SMALLINT"}
      [] type = "SMALLINT" -> lex \in {"INTEGER", "SMALLINT"}
      [] type = "NUMERIC"  -> lex \in {"NUMERIC", "SMALLINT"}

(***************************************************************************)
(* Lines of a file.  A header line is a sequence of tokens: field names    *)
(* and the whitespace characters between and around them.  A data line is  *)
(* the sequence of its tab-separated fields.                               *)
(***************************************************************************)
Whitespace == {"\t", " ", "\n"}

HdrLine(toks) == [kind |-> "hdr", toks |-> toks, vals |-> << >>]
RowLine(vals) == [kind |-> "row", toks |-> << >>, vals |-> vals]
EmptyLine == HdrLine(<< >>)       \* what readline returns at end of file

RECURSIVE JoinTab(_)
\* "\t".join(cols)
JoinTab(cols) ==
    IF Len(cols) = 0 THEN << >>
    ELSE IF Len(cols) = 1 THEN <<cols[1]>>
    ELSE <<cols[1], "\t">> \o JoinTab(Tail(cols))

RECURSIVE LStrip(_)
LStrip(toks) ==
    IF toks # << >> /\ Head(toks) \in Whitespace THEN LStrip(Tail(toks)) ELSE toks

RECURSIVE RStrip(_)
RStrip(toks) ==
    IF toks # << >> /\ toks[Len(toks)] \in Whitespace
    THEN RStrip(SubSeq(toks, 1, Len(toks) - 1))
    ELSE toks

\* str.strip(): leading and trailing whitespace removed
Strip(toks) == RStrip(LStrip(toks))

\* the text of a line as the header check sees it; the text of a data line
\* is never the text of a list of field names
LineText(line) == IF line.kind = "hdr" THEN line.toks ELSE <<"<data>">>

\* header.strip() != expected
HeaderMismatch(line, cols) == Strip(LineText(line)) # JoinTab(cols)

RECURSIVE SplitTabs(_)
\* the tab-separated fields of a header line read as data
SplitTabs(toks) ==
    IF toks = << >> THEN << >>
    ELSE IF Head(toks) \in Whitespace THEN SplitTabs(Tail(toks))
    ELSE <<[k |-> "text", c |-> Head(toks)]>> \o SplitTabs(Tail(toks))

\* the fields COPY sees in a line
LineFields(line) == IF line.kind = "row" THEN line.vals ELSE SplitTabs(line.toks)

(***************************************************************************)
(* The database.  A view is the set of objects that exist (the schema, the *)
(* tables, the indexes) and the rows of each table; a row is a function    *)
(* from the table's columns to values.                                     *)
(***************************************************************************)
EmptyView == [objs |-> {}, rows |-> [t \in Tables |-> {}]]

Ok(view) == [ok |-> TRUE, view |-> view]
Err(view) == [ok |-> FALSE, view |-> view]

\* DDL_STATEMENTS, in order: what each creates and what it needs to exist
DDL_STATEMENTS ==
    << [name |-> "schema",                  needs |-> {}],
       [name |-> "name_basics",             needs |-> {"schema"}],
       [name |-> "title_basics",            needs |-> {"schema"}],
       [name |-> "title_ratings",           needs |-> {"schema"}],
       [name |-> "idx_title_basics_type",   needs |-> {"schema", "title_basics"}],
       [name |-> "idx_title_ratings_votes", needs |-> {"schema", "title_ratings"}] >>

\* variant: CREATE without IF NOT EXISTS fails on an object that exists
ExecCreatePlain(stmt, view) ==
    IF stmt.name \in view.objs \/ ~(stmt.needs \subseteq view.objs) THEN Err(view)
    ELSE Ok([view EXCEPT !.objs = @ \cup {stmt.name}])

\* CREATE ... IF NOT EXISTS: nothing happens to an object that exists
ExecCreate(stmt, view) ==
    IF stmt.name \in view.objs THEN Ok(view)
    ELSE IF ~(stmt.needs \subseteq view.objs) THEN Err(view)
    ELSE Ok([view EXCEPT !.objs = @ \cup {stmt.name}])

RECURSIVE ExecAll(_, _)
\* for stmt in DDL_STATEMENTS: cur.execute(stmt); the first error ends the loop
ExecAll(stmts, view) ==
    IF stmts = << >> THEN Ok(view)
    ELSE LET r == ExecCreate(Head(stmts), view)
         IN IF r.ok THEN ExecAll(Tail(stmts), r.view) ELSE r

\* variant: the statement leaves the rows where they are
ExecTruncateKeeps(t, view) ==
    IF t \in view.objs THEN Ok(view) ELSE Err(view)

\* TRUNCATE TABLE schema.t
ExecTruncate(t, view) ==
    IF t \in view.objs THEN Ok([view EXCEPT !.rows[t] = {}]) ELSE Err(view)

\* COPY's reading of one field: the null token is the absent value
Convert(v) == IF v = NullToken THEN NULL ELSE v

\* one line of COPY t (cols) FROM STDIN: the fields are stored in the listed
\* columns in the listed order; columns not listed are absent
CopyLine(t, cols, line) ==
    LET fields == LineFields(line)
        arityOk == Len(fields) = Len(cols)
        typesOk == \A j \in 1..Len(cols) :
                      \/ fields[j] = NullToken
                      \/ Accepts(ColumnType(cols[j]), LexOf(fields[j]))
        row == [col \in ColSet(t) |->
                  IF \E j \in 1..Len(cols) : cols[j] = col
                  THEN Convert(fields[CHOOSE j \in 1..Len(cols) : cols[j] = col])
                  ELSE NULL]
    IN IF arityOk /\ typesOk /\ row[PrimaryKey(t)] # NULL
       THEN [ok |-> TRUE, row |-> row]
       ELSE [ok |-> FALSE, row |-> [col \in ColSet(t) |-> NULL]]

RECURSIVE CopyFrom(_, _, _, _)
\* COPY of the lines into the rows of t: any bad line, and any line whose
\* primary key is already in the table, fails the whole statement
CopyFrom(t, cols, lines, rows) ==
    IF lines = << >> THEN [ok |-> TRUE, rows |-> rows]
    ELSE LET r == CopyLine(t, cols, Head(lines))
         IN IF ~r.ok \/ \E old \in rows : old[PrimaryKey(t)] = r.row[PrimaryKey(t)]
            THEN [ok |-> FALSE, rows |-> rows]
            ELSE CopyFrom(t, cols, Tail(lines), rows \cup {r.row})

\* variant: the copied lines replace the rows of the table
ExecCopyReplacing(t, cols, lines, view) ==
    IF t \notin view.objs THEN Err(view)
    ELSE LET r == CopyFrom(t, cols, lines, {})
         IN IF r.ok THEN Ok([view EXCEPT !.rows[t] = r.rows]) ELSE Err(view)

\* cur.copy_expert(copy_sql, f) on a view
ExecCopy(t, cols, lines, view) ==
    IF t \notin view.objs THEN Err(view)
    ELSE LET r == CopyFrom(t, cols, lines, view.rows[t])
         IN IF r.ok THEN Ok([view EXCEPT !.rows[t] = r.rows]) ELSE Err(view)

\* SELECT COUNT(*) FROM schema.t
CountRows(t, view) == Cardinality(view.rows[t])

(***************************************************************************)
(* Input files.  A file is the sequence of its lines.  The files of an     *)
(* IMDb export have the header of their kind and one full line per         *)
(* identifier; other files differ in the first line, in the order of the   *)
(* columns, or have lines with null tokens or with a field missing.        *)
(***************************************************************************)
\* the line of identifier k with its fields in the given order
FullLine(order, k) == RowLine([j \in 1..Len(order) |-> Val(k, order[j])])

\* the same line with the null token in every field that is not text
SparseLine(order, k) ==
    RowLine([j \in 1..Len(order) |->
               IF ColumnType(mapping[order[j]]) = "TEXT"
               THEN Val(k, order[j]) ELSE NullToken])

\* the same line with its last field missing
ShortLine(order, k) ==
    RowLine([j \in 1..(Len(order) - 1) |-> Val(k, order[j])])

MkLine(order, spec) ==
    CASE spec.shape = "full"   -> FullLine(order, spec.k)
      [] spec.shape = "sparse" -> SparseLine(order, spec.k)
      [] spec.shape = "short"  -> ShortLine(order, spec.k)

SeqsUpTo(S, n) == UNION {[1..m -> S] : m \in 0..n}

Bodies(order, shapes) ==
    {[j \in 1..Len(b) |-> MkLine(order, b[j])] :
        b \in SeqsUpTo([k : Keys, shape : shapes], MaxRows)}

\* the header line of a file whose columns are in the given order
Header(order) == HdrLine(JoinTab(order) \o <<"\n">>)

\* the same header with blanks around it
PaddedHeader(order) == HdrLine(<<" ">> \o JoinTab(order) \o <<" ", "\n">>)

\* a first line that names none of the fields
OtherHeader == HdrLine(<<"id", "\t", "value", "\n">>)

Swap(order, a) ==
    [j \in 1..Len(order) |->
        IF j = a THEN order[a + 1] ELSE IF j = a + 1 THEN order[a] ELSE order[j]]

Reverse(order) == [j \in 1..Len(order) |-> order[Len(order) + 1 - j]]

\* orders of the columns other than the canonical one
OtherOrders(t) ==
    {Swap(HeaderCols(t), a) : a \in 1..(Len(HeaderCols(t)) - 1)}
        \cup {Reverse(HeaderCols(t))}

\* files as exported: the canonical header, then full lines
PlainFiles(t) ==
    {<<Header(HeaderCols(t))>> \o b : b \in Bodies(HeaderCols(t), {"full"})}

\* files of every shape the loader may be given
RichFiles(t) ==
    LET shapes == {"full", "sparse", "short"}
        canon  == Bodies(HeaderCols(t), shapes)
    IN  {<<h>> \o b : h \in {Header(HeaderCols(t)), PaddedHeader(HeaderCols(t)),
                             OtherHeader},
                      b \in canon}
        \cup canon
        \cup UNION {{<<Header(o)>> \o b : b \in Bodies(o, shapes)} : o \in OtherOrders(t)}

\* what a path may hold: any exported file, any file, or one given file
AnyPlain == [mode |-> "plain", file |-> << >>]
AnyRich == [mode |-> "rich", file |-> << >>]
Fixed(file) == [mode |-> "fixed", file |-> file]

\* the lines the stream of open_textmaybe_gz delivers for the path of table
\* t: the decoded text of the file, whether or not the path ends in .gz
Candidates(t, d) ==
    CASE d.mode = "plain" -> PlainFiles(t)
      [] d.mode = "rich"  -> RichFiles(t)
      [] d.mode = "fixed" -> {d.file}

\* variant: the first line is looked at and left in the stream
ReadLineKeeps(lines) ==
    IF lines = << >> THEN [line |-> EmptyLine, rest |-> << >>]
    ELSE [line |-> Head(lines), rest |-> lines]

\* f.readline(): the first line, or the empty line at end of file
ReadLine(lines) ==
    IF lines = << >> THEN [line |-> EmptyLine, rest |-> << >>]
    ELSE [line |-> Head(lines), rest |-> Tail(lines)]

(***************************************************************************)
(* The process.                                                            *)
(***************************************************************************)
VARIABLES
    pc,         \* where main is: connect, ddl, truncate, copy, count, commit,
                \* finally, exit
    i,          \* index of the table of the truncate loop or of the copy_tsv call
    run,        \* number of the run of main
    truncate,   \* args.truncate
    conn,       \* the connection: none, open, closed
    exitCode,   \* exit status of the process, -1 while it runs
    failedAt,   \* the step that raised, if any
    cause,      \* why it raised: env (the environment), sql (the statement)
    log,        \* the steps main has started in this run, in order
    db,         \* committed state of the database
    txn,        \* the open transaction of the connection and its view
    fs,         \* what each input path holds
    f,          \* the stream copy_tsv opened last
    total,      \* total of copy_tsv
    reported,   \* the count printed for each table in this run, -1 if none
    warned,     \* whether the header warning was printed for each table
    before,     \* number of rows of each table when the run started
    nrows,      \* data lines of the file read for each table, -1 if none
    prev,       \* exit status and args.truncate of the previous run
    held        \* the table of the last copy_tsv call and the rows it held
                \* when the call began

vars == <<pc, i, run, truncate, conn, exitCode, failedAt, cause, log, db, txn,
          fs, f, total, reported, warned, before, nrows, prev, held>>

Step(op, t) == [op |-> op, t |-> t]
NoStep == Step("none", "-")

NoTxn == [active |-> FALSE, view |-> EmptyView]
NoRows == [table |-> "-", rows |-> {}]
NoStream == [open |-> FALSE, table |-> "-", file |-> << >>, header |-> EmptyLine,
             copied |-> << >>]

Counts(view) == [t \in Tables |-> Cardinality(view.rows[t])]

\* the state of a process that has just parsed its arguments
Start(trunc, r, database, paths) ==
    /\ pc = "connect"
    /\ i = 1
    /\ run = r
    /\ truncate = trunc
    /\ conn = "none"
    /\ exitCode = -1
    /\ failedAt = NoStep
    /\ cause = "none"
    /\ log = << >>
    /\ db = database
    /\ txn = NoTxn
    /\ fs = paths
    /\ f = NoStream
    /\ total = 0
    /\ reported = [t \in Tables |-> -1]
    /\ warned = [t \in Tables |-> FALSE]
    /\ before = Counts(database)
    /\ nrows = [t \in Tables |-> -1]
    /\ prev = [exitCode |-> -1, truncate |-> FALSE]
    /\ held = NoRows

\* first run against a new database, every path holding some exported file
Init == \E trunc \in BOOLEAN :
            Start(trunc, 1, EmptyView, [t \in Tables |-> AnyPlain])


\* the data lines of a file
DataLines(file) == Cardinality({j \in 1..Len(file) : file[j].kind = "row"})

\* variant: the exception is recorded and main carries on where it was
RaisedAndContinue(step, why) ==
    /\ pc' = pc
    /\ failedAt' = step
    /\ cause' = why

\* an exception leaves the try block of main: nothing else of it runs
Raised(step, why) ==
    /\ pc' = "finally"
    /\ failedAt' = step
    /\ cause' = why

\* the step main is at
CurrentStep ==
    CASE pc = "ddl"      -> Step("ddl", "-")
      [] pc = "truncate" -> Step("truncate", TruncateOrder[i])
      [] pc \in {"copy", "count", "commit"} -> Step(pc, LoadOrder[i])
      [] OTHER           -> Step(pc, "-")

\* conn = psycopg2.connect(args.dsn)
Connect ==
    /\ pc = "connect"
    /\ conn' = "open"
    /\ pc' = "ddl"
    /\ log' = Append(log, Step("connect", "-"))
    /\ UNCHANGED <<i, run, truncate, exitCode, failedAt, cause, db, txn, fs, f,
                   total, reported, warned, before, nrows, prev, held>>

\* variant: the failed connection is reported and main goes on to run_ddl
ConnectFailIgnored ==
    /\ pc = "connect"
    /\ pc' = "ddl"
    /\ failedAt' = Step("connect", "-")
    /\ cause' = "env"
    /\ log' = Append(log, Step("connect", "-"))
    /\ UNCHANGED <<i, run, truncate, conn, exitCode, db, txn, fs, f, total, reported,
                   warned, before, nrows, prev, held>>

\* psycopg2.connect raises: the message is printed and sys.exit(1) is called
ConnectFail ==
    /\ pc = "connect"
    /\ pc' = "exit"
    /\ exitCode' = 1
    /\ failedAt' = Step("connect", "-")
    /\ cause' = "env"
    /\ log' = Append(log, Step("connect", "-"))
    /\ UNCHANGED <<i, run, truncate, conn, db, txn, fs, f, total, reported,
                   warned, before, nrows, prev, held>>

\* run_ddl(conn, args.schema): every statement, then conn.commit()
RunDdl ==
    /\ pc = "ddl"
    /\ log' = Append(log, Step("ddl", "-"))
    /\ LET r == ExecAll(DDL_STATEMENTS, db)
       IN IF r.ok
          THEN /\ db' = r.view
               /\ txn' = NoTxn
               /\ pc' = IF truncate THEN "truncate" ELSE "copy"
               /\ UNCHANGED <<failedAt, cause>>
          ELSE /\ db' = db
               /\ txn' = [active |-> TRUE, view |-> db]
               /\ Raised(Step("ddl", "-"), "sql")
    /\ UNCHANGED <<i, run, truncate, conn, exitCode, fs, f, total, reported,
                   warned, before, nrows, prev, held>>

\* truncate_table(conn, args.schema, t) for the next t of the loop
TruncateTable ==
    /\ pc = "truncate"
    /\ log' = Append(log, Step("truncate", TruncateOrder[i]))
    /\ LET r == ExecTruncate(TruncateOrder[i], db)
       IN IF r.ok
          THEN /\ db' = r.view
               /\ txn' = NoTxn
               /\ IF i < Len(TruncateOrder)
                  THEN pc' = pc /\ i' = i + 1
                  ELSE pc' = "copy" /\ i' = 1
               /\ UNCHANGED <<failedAt, cause>>
          ELSE /\ db' = db
               /\ txn' = [active |-> TRUE, view |-> db]
               /\ i' = i
               /\ Raised(Step("truncate", TruncateOrder[i]), "sql")
    /\ UNCHANGED <<run, truncate, conn, exitCode, fs, f, total, reported,
                   warned, before, nrows, prev, held>>

\* variant: a first line that is not the expected header fails the load
LoadCopyStrict ==
    /\ pc = "copy"
    /\ LET t == LoadOrder[i]
       IN \E file \in Candidates(t, fs[t]) :
            LET rl  == ReadLine(file)
                bad == HeaderMismatch(rl.line, HeaderCols(t))
                r   == IF bad THEN Err(db)
                       ELSE ExecCopy(t, OrderedTableCols(HeaderCols(t)), rl.rest, db)
            IN /\ log' = Append(log, Step("copy", t))
               /\ total' = 0
               /\ warned' = [warned EXCEPT ![t] = bad]
               /\ nrows' = [nrows EXCEPT ![t] = DataLines(file)]
               /\ txn' = [active |-> TRUE, view |-> r.view]
               /\ f' = [open |-> r.ok, table |-> t, file |-> file,
                        header |-> rl.line, copied |-> rl.rest]
               /\ IF r.ok
                  THEN pc' = "count" /\ UNCHANGED <<failedAt, cause>>
                  ELSE Raised(Step("copy", t), "sql")
               /\ held' = [table |-> t, rows |-> db.rows[t]]
    /\ UNCHANGED <<i, run, truncate, conn, exitCode, db, fs, reported, before, prev>>

\* copy_tsv up to cur.copy_expert: the file is opened, its first line read
\* and compared with the expected header, and the rest of the stream is
\* copied into the table, in the columns the expected header maps to
LoadCopy ==
    /\ pc = "copy"
    /\ LET t == LoadOrder[i]
       IN \E file \in Candidates(t, fs[t]) :
            LET rl == ReadLine(file)
                r  == ExecCopy(t, OrderedTableCols(HeaderCols(t)), rl.rest, db)
            IN /\ log' = Append(log, Step("copy", t))
               /\ total' = 0
               /\ warned' = [warned EXCEPT ![t] = HeaderMismatch(rl.line, HeaderCols(t))]
               /\ nrows' = [nrows EXCEPT ![t] = DataLines(file)]
               /\ txn' = [active |-> TRUE, view |-> r.view]
               /\ f' = [open |-> r.ok, table |-> t, file |-> file,
                        header |-> rl.line, copied |-> rl.rest]
               /\ IF r.ok
                  THEN pc' = "count" /\ UNCHANGED <<failedAt, cause>>
                  ELSE Raised(Step("copy", t), "sql")
               /\ held' = [table |-> t, rows |-> db.rows[t]]
    /\ UNCHANGED <<i, run, truncate, conn, exitCode, db, fs, reported, before, prev>>

\* copy_tsv: SELECT COUNT(*) and total = cur.fetchone()[0]
LoadCount ==
    /\ pc = "count"
    /\ total' = CountRows(LoadOrder[i], txn.view)
    /\ pc' = "commit"
    /\ UNCHANGED <<i, run, truncate, conn, exitCode, failedAt, cause, log, db, txn,
                   fs, f, reported, warned, before, nrows, prev, held>>

\* copy_tsv: the with block ends, conn.commit(), the count is printed; after
\* the last file main prints its success marker and leaves the try block
LoadCommit ==
    /\ pc = "commit"
    /\ f' = [f EXCEPT !.open = FALSE]
    /\ db' = txn.view
    /\ txn' = NoTxn
    /\ reported' = [reported EXCEPT ![LoadOrder[i]] = total]
    /\ IF i < Len(LoadOrder)
       THEN pc' = "copy" /\ i' = i + 1
       ELSE pc' = "finally" /\ i' = i
    /\ UNCHANGED <<run, truncate, conn, exitCode, failedAt, cause, log, fs, total,
                   warned, before, nrows, prev, held>>

\* the environment fails the step main is at (the server or the network goes
\* away, the file cannot be opened or read): the call raises
Raise ==
    /\ pc \in {"ddl", "truncate", "copy", "count", "commit"}
    /\ Raised(CurrentStep, "env")
    /\ log' = IF pc \in {"ddl", "truncate", "copy"} THEN Append(log, CurrentStep) ELSE log
    /\ f' = [f EXCEPT !.open = FALSE]
    /\ txn' = [txn EXCEPT !.active = TRUE]
    /\ held' = IF pc = "copy"
               THEN [table |-> LoadOrder[i], rows |-> db.rows[LoadOrder[i]]]
               ELSE held
    /\ UNCHANGED <<i, run, truncate, conn, exitCode, db, fs, total, reported,
                   warned, before, nrows, prev>>

\* variant: the open transaction is committed when the connection closes
FinallyCommitting ==
    /\ pc = "finally"
    /\ conn' = "closed"
    /\ db' = IF txn.active THEN txn.view ELSE db
    /\ txn' = NoTxn
    /\ pc' = "exit"
    /\ exitCode' = IF failedAt = NoStep THEN 0 ELSE 1
    /\ UNCHANGED <<i, run, truncate, failedAt, cause, log, fs, f, total,
                   reported, warned, before, nrows, prev, held>>

\* variant: the connection is closed after the last load, not in a finally
FinallyOnSuccessOnly ==
    /\ pc = "finally"
    /\ conn' = IF failedAt = NoStep THEN "closed" ELSE conn
    /\ txn' = NoTxn
    /\ pc' = "exit"
    /\ exitCode' = IF failedAt = NoStep THEN 0 ELSE 1
    /\ UNCHANGED <<i, run, truncate, failedAt, cause, log, db, fs, f, total,
                   reported, warned, before, nrows, prev, held>>

\* finally: conn.close(), which discards the open transaction; then the
\* process ends, with status 0 unless an exception is propagating
Finally ==
    /\ pc = "finally"
    /\ conn' = "closed"
    /\ txn' = NoTxn
    /\ pc' = "exit"
    /\ exitCode' = IF failedAt = NoStep THEN 0 ELSE 1
    /\ UNCHANGED <<i, run, truncate, failedAt, cause, log, db, fs, f, total,
                   reported, warned, before, nrows, prev, held>>

\* the operator runs main again, against the same database
NewRun ==
    /\ pc = "exit"
    /\ run < MaxRuns
    /\ \E trunc \in BOOLEAN : truncate' = trunc
    /\ pc' = "connect"
    /\ i' = 1
    /\ run' = run + 1
    /\ conn' = "none"
    /\ exitCode' = -1
    /\ failedAt' = NoStep
    /\ cause' = "none"
    /\ log' = << >>
    /\ f' = NoStream
    /\ total' = 0
    /\ reported' = [t \in Tables |-> -1]
    /\ warned' = [t \in Tables |-> FALSE]
    /\ before' = Counts(db)
    /\ nrows' = [t \in Tables |-> -1]
    /\ prev' = [exitCode |-> exitCode, truncate |-> truncate]
    /\ held' = NoRows
    /\ UNCHANGED <<db, txn, fs>>

Main ==
    \/ Connect
    \/ ConnectFail
    \/ RunDdl
    \/ TruncateTable
    \/ LoadCopy
    \/ LoadCount
    \/ LoadCommit
    \/ Raise
    \/ Finally

Next == Main \/ NewRun

Spec == Init /\ [][Next]_vars

(***************************************************************************)
(* Runs over the same three files: the paths hold fixed files, and the     *)
(* database may already hold rows that earlier loads left.                 *)
(***************************************************************************)
\* a database on which the schema was created and rows were loaded
Loaded(rows) ==
    [objs |-> {DDL_STATEMENTS[j].name : j \in 1..Len(DDL_STATEMENTS)}, rows |-> rows]

TableRows(t, ks) ==
    {CopyLine(t, OrderedTableCols(HeaderCols(t)), FullLine(HeaderCols(t), k)).row : k \in ks}

\* a new database, and one whose tables hold the rows of one identifier
PriorViews ==
    {EmptyView, Loaded([t \in Tables |-> TableRows(t, {CHOOSE k \in Keys : TRUE})])}

InitRerun ==
    \E trunc \in BOOLEAN, database \in PriorViews,
       a \in PlainFiles("name_basics"), b \in PlainFiles("title_basics"),
       c \in PlainFiles("title_ratings") :
        Start(trunc, 1, database,
              [t \in Tables |-> CASE t = "name_basics"   -> Fixed(a)
                                  [] t = "title_basics"  -> Fixed(b)
                                  [] t = "title_ratings" -> Fixed(c)])

SpecRerun == InitRerun /\ [][Next]_vars

(***************************************************************************)
(* One run in which one of the paths holds a file of any shape.            *)
(***************************************************************************)
InitFiles ==
    \E trunc \in BOOLEAN, odd \in Tables :
        Start(trunc, 1, EmptyView,
              [t \in Tables |-> IF t = odd THEN AnyRich ELSE AnyPlain])

SpecFiles == InitFiles /\ [][Main]_vars

(***************************************************************************)
(* Properties.                                                             *)
(***************************************************************************)
IsPrefix(a, b) == Len(a) <= Len(b) /\ SubSeq(b, 1, Len(a)) = a

\* the steps of a complete run, in order
FullRun(trunc) ==
    <<Step("connect", "-"), Step("ddl", "-")>>
    \o (IF trunc
        THEN <<Step("truncate", "name_basics"), Step("truncate", "title_basics"),
               Step("truncate", "title_ratings")>>
        ELSE << >>)
    \o <<Step("copy", "name_basics"), Step("copy", "title_basics"),
         Step("copy", "title_ratings")>>

\* the step of main a failure belongs to: the count query and the commit of
\* copy_tsv are part of the load
StepOf(s) == IF s.op \in {"count", "commit"} THEN Step("copy", s.t) ELSE s

Ended == pc = "exit"
Succeeded == pc = "exit" /\ exitCode = 0
Failed == pc = "exit" /\ exitCode # 0
FailedInLoad == failedAt.op \in {"copy", "count", "commit"}

\* C1: the steps of a run are started in the order connect, schema-init,
\* the three truncates when --truncate is set, the three loads; a failure
\* of a step is the last step of the run, which then ends with a non-zero
\* status, and a run that ends with status 0 has done every step.
C1_StepOrder ==
    /\ IsPrefix(log, FullRun(truncate))
    /\ failedAt # NoStep =>
          /\ pc \in {"finally", "exit"}
          /\ log # << >>
          /\ log[Len(log)] = StepOf(failedAt)
    /\ Ended => /\ exitCode \in {0, 1}
                /\ (exitCode = 0) = (failedAt = NoStep)
    /\ Succeeded => log = FullRun(truncate)

C1_Witness ==
    /\ Failed
    /\ truncate
    /\ failedAt = Step("count", "title_basics")
    /\ log = SubSeq(FullRun(TRUE), 1, 7)

\* C2: when a load fails before its commit, the table of that file holds
\* after the process ended exactly the rows it held before the load, and the
\* table of every file loaded earlier in the run holds the rows counted at
\* its commit: the rows it had at that load's start plus the file's rows.
C2_FailedLoadRollsBack ==
    (Ended /\ FailedInLoad) =>
        /\ held.table = failedAt.t
        /\ db.rows[failedAt.t] = held.rows
        /\ \A j \in 1..Len(LoadOrder) :
              LET t == LoadOrder[j]
              IN (j < i) =>
                    /\ reported[t] = Cardinality(db.rows[t])
                    /\ reported[t] = (IF truncate THEN 0 ELSE before[t]) + nrows[t]
        /\ \A j \in 1..Len(LoadOrder) : (j > i) => reported[LoadOrder[j]] = -1

C2_Witness ==
    /\ Ended
    /\ failedAt = Step("count", "title_basics")
    /\ nrows["title_basics"] = 1
    /\ held.rows # {}
    /\ db.rows["title_basics"] = held.rows
    /\ txn = NoTxn
    /\ nrows["name_basics"] = 1
    /\ reported["name_basics"] = 2

\* C3: a process that connected has closed its connection when it ends.
C3_ConnectionClosed ==
    Ended => (conn # "open" /\ (failedAt # Step("connect", "-") => conn = "closed"))

C3_Witness ==
    /\ Ended
    /\ conn = "closed"
    /\ failedAt = Step("truncate", "title_basics")

\* C4: a failed connection attempt ends the process with status 1 before
\* any other step; status 0 means that schema-init, the truncates asked for
\* and the three loads were done and committed.
C4_ExitCodes ==
    /\ failedAt = Step("connect", "-") =>
          /\ pc = "exit"
          /\ exitCode = 1
          /\ log = <<Step("connect", "-")>>
          /\ Counts(db) = before
          /\ \A t \in Tables : reported[t] = -1
    /\ Succeeded =>
          /\ log = FullRun(truncate)
          /\ ~txn.active
          /\ {DDL_STATEMENTS[j].name : j \in 1..Len(DDL_STATEMENTS)} \subseteq db.objs
          /\ \A t \in Tables :
                /\ reported[t] = Cardinality(db.rows[t])
                /\ reported[t] = (IF truncate THEN 0 ELSE before[t]) + nrows[t]

C4_Witness ==
    /\ Failed
    /\ failedAt = Step("connect", "-")
    /\ run = 2
    /\ before["name_basics"] > 0

(***************************************************************************)
(* Shapes of files, stated on the lines themselves.                        *)
(***************************************************************************)
FirstLine(file) == IF file = << >> THEN EmptyLine ELSE file[1]
Rest(file) == IF file = << >> THEN << >> ELSE Tail(file)

\* the field names of a header line
FieldsOf(line) == SelectSeq(line.toks, LAMBDA x : x \notin Whitespace)

Range(q) == {q[j] : j \in 1..Len(q)}

IsReordering(o, cols) == Len(o) = Len(cols) /\ Range(o) = Range(cols) /\ o # cols

\* line holds, in the given order, the fields of one identifier; any field
\* but the identifier may be the null token
IsRecordLine(t, order, line) ==
    /\ line.kind = "row"
    /\ Len(line.vals) = Len(order)
    /\ \E k \in Keys : \A c \in 1..Len(order) :
          \/ line.vals[c] = Val(k, order[c])
          \/ line.vals[c] = NullToken /\ order[c] # HeaderCols(t)[1]

\* the identifier of a record line
KeyOf(t, order, line) ==
    line.vals[CHOOSE c \in 1..Len(order) : order[c] = HeaderCols(t)[1]].k

\* every line is a record line and no identifier occurs twice
IsRecordBody(t, order, lines) ==
    /\ \A j \in 1..Len(lines) : IsRecordLine(t, order, lines[j])
    /\ \A a, b \in 1..Len(lines) :
          a # b => KeyOf(t, order, lines[a]) # KeyOf(t, order, lines[b])

\* the header of the kind, then one record line per identifier
WellFormed(t, file) ==
    /\ file # << >>
    /\ file[1] = Header(HeaderCols(t))
    /\ IsRecordBody(t, HeaderCols(t), Tail(file))

\* a header with the fields of the kind in another order, and the record
\* lines in that order
Reordered(t, file) ==
    /\ file # << >>
    /\ file[1].kind = "hdr"
    /\ IsReordering(FieldsOf(file[1]), HeaderCols(t))
    /\ file[1] = Header(FieldsOf(file[1]))
    /\ IsRecordBody(t, FieldsOf(file[1]), Tail(file))

\* the load of the file of table t has got as far as its commit
Committed(t) == f.table = t /\ reported[t] >= 0

\* C5: a well-formed file with N data rows loaded into an empty table is
\* not rejected by the database, and once committed the table holds N rows
\* and the count printed is N.
C5_LoadsAllRows ==
    \A t \in Tables :
        (f.table = t /\ WellFormed(t, f.file) /\ held = [table |-> t, rows |-> {}]) =>
            /\ (FailedInLoad /\ failedAt.t = t) => cause = "env"
            /\ reported[t] >= 0 =>
                  /\ reported[t] = Len(f.file) - 1
                  /\ Cardinality(db.rows[t]) = Len(f.file) - 1

C5_Witness ==
    /\ Committed("title_ratings")
    /\ WellFormed("title_ratings", f.file)
    /\ held = [table |-> "title_ratings", rows |-> {}]
    /\ reported["title_ratings"] = 2
    /\ \E row \in db.rows["title_ratings"] : row["average_rating"] = NULL

\* C6: when the header of a file has the fields in another order and the
\* data columns are in that order, the table holds after the load, for
\* every line, a row with each value in the column its header field is
\* mapped to.
C6_ReorderedColumnsPlaced ==
    \A t \in Tables :
        (Committed(t) /\ Reordered(t, f.file)) =>
            \A j \in 2..Len(f.file) :
                \E row \in db.rows[t] :
                    \A c \in 1..Len(f.file[j].vals) :
                        row[mapping[FieldsOf(f.file[1])[c]]] = Convert(f.file[j].vals[c])

\* the text of the first line differs from the expected header, with or
\* without its line end
DiffersVerbatim(t, file) ==
    LineText(FirstLine(file)) \notin
        {JoinTab(HeaderCols(t)), JoinTab(HeaderCols(t)) \o <<"\n">>}

\* the text of the first line without the whitespace around it differs
DiffersStripped(t, file) ==
    LET text == LineText(FirstLine(file))
        from == CHOOSE a \in 1..(Len(text) + 1) :
                   /\ \A j \in 1..(a - 1) : text[j] \in Whitespace
                   /\ a <= Len(text) => text[a] \notin Whitespace
        upto == CHOOSE b \in 0..Len(text) :
                   /\ \A j \in (b + 1)..Len(text) : text[j] \in Whitespace
                   /\ b >= 1 => text[b] \notin Whitespace
    IN SubSeq(text, from, upto) # JoinTab(HeaderCols(t))

\* the load of f.file went as the load of its lines after the first goes:
\* the first line was read and not copied, the others were copied, and the
\* load failed, or filled the table, as COPY of those lines does
LoadedAsBody(t) ==
    LET r == CopyFrom(t, OrderedTableCols(HeaderCols(t)), Rest(f.file), held.rows)
    IN /\ f.header = FirstLine(f.file)
       /\ f.copied = Rest(f.file)
       /\ (failedAt = Step("copy", t) /\ cause = "sql") = ~r.ok
       /\ (pc \in {"count", "commit"} /\ LoadOrder[i] = t) => txn.view.rows[t] = r.rows
       /\ reported[t] >= 0 =>
             /\ db.rows[t] = r.rows
             /\ reported[t] = Cardinality(r.rows)

\* C9 as stated: whenever the first line differs from the expected header,
\* a warning is printed and the load goes as for the same body.
C9_WarnsOnAnyDifference ==
    \A t \in Tables :
        (f.table = t /\ held.table = t /\ DiffersVerbatim(t, f.file)) =>
            (warned[t] /\ LoadedAsBody(t))

\* C9, amended: whenever the first line, without the whitespace around it,
\* differs from the expected header, a warning is printed and the load goes
\* as for the same body: the first line is not loaded, the other lines are
\* copied, and the table and the outcome are those of the body alone.
C9_HeaderCheckIsSoft ==
    \A t \in Tables :
        (f.table = t /\ held.table = t /\ DiffersStripped(t, f.file)) =>
            (warned[t] /\ LoadedAsBody(t))

C9_Witness ==
    /\ Committed("name_basics")
    /\ f.file # << >>
    /\ f.file[1] = OtherHeader
    /\ warned["name_basics"]
    /\ reported["name_basics"] = 2
    /\ Cardinality(db.rows["name_basics"]) = 2

\* the identifiers of the record lines of a file
KeysOf(t, file) == {KeyOf(t, HeaderCols(t), file[j]) : j \in 2..Len(file)}

\* C7 as stated: a run without --truncate that the environment does not
\* fail, over well-formed files, leaves in every table it loads the rows
\* the table had before the run plus the data rows of the file.
C7_AlwaysAccumulates ==
    (/\ Ended
     /\ ~truncate
     /\ cause # "env"
     /\ failedAt # NoStep => WellFormed(f.table, f.file)) =>
        \A t \in Tables :
            nrows[t] >= 0 => Cardinality(db.rows[t]) = before[t] + nrows[t]

\* C7, amended: a run without --truncate that completes leaves in every
\* table the rows it had before the run plus the data rows of the file, and
\* the count printed is that total; the load of a well-formed file is
\* rejected exactly when one of its identifiers is already in the table,
\* and the table then keeps the rows it had.
C7_AccumulatesWhenCommitted ==
    /\ (Succeeded /\ ~truncate) =>
          \A t \in Tables :
              /\ Cardinality(db.rows[t]) = before[t] + nrows[t]
              /\ reported[t] = before[t] + nrows[t]
    /\ \A t \in Tables :
          (~truncate /\ f.table = t /\ held.table = t /\ WellFormed(t, f.file)) =>
              LET clash == \E old \in held.rows :
                               old[PrimaryKey(t)].k \in KeysOf(t, f.file)
              IN /\ (failedAt = Step("copy", t) /\ cause = "sql") = clash
                 /\ (Ended /\ clash) => Cardinality(db.rows[t]) = before[t]

C7_Witness ==
    /\ Succeeded
    /\ ~truncate
    /\ \A t \in Tables : before[t] = 1 /\ nrows[t] = 1 /\ reported[t] = 2

\* C8: with --truncate every table is empty when the first load starts; a
\* run that completes leaves in every table as many rows as its file has
\* data rows; and a second such run over the same files ends with the row
\* counts the first ended with.
C8_TruncateReloadIdempotent ==
    /\ (truncate /\ pc = "copy" /\ i = 1) => \A t \in Tables : db.rows[t] = {}
    /\ (Succeeded /\ truncate) =>
          \A t \in Tables : Cardinality(db.rows[t]) = Len(fs[t].file) - 1
    /\ (Succeeded /\ truncate /\ prev.exitCode = 0 /\ prev.truncate) =>
          Counts(db) = before

C8_Witness ==
    /\ Succeeded
    /\ truncate
    /\ run = 2
    /\ prev.exitCode = 0
    /\ prev.truncate
    /\ Counts(db) = before
    /\ before["name_basics"] = 2
    /\ before["title_basics"] = 1
    /\ before["title_ratings"] = 1

\* every object of DDL_STATEMENTS exists
Installed == {DDL_STATEMENTS[j].name : j \in 1..Len(DDL_STATEMENTS)} \subseteq db.objs

\* C10: schema-init on a database where it already succeeded changes
\* nothing in the database and is not rejected by it; in a run without
\* --truncate only the commit of a load changes the rows of a table.
C10_SchemaInitIdempotent ==
    [][/\ (pc = "ddl" /\ Installed) =>
              /\ db' = db
              /\ failedAt' # NoStep => cause' = "env"
       /\ (~truncate /\ db'.rows # db.rows) => pc = "commit"]_vars

C10_Witness ==
    /\ run = 2
    /\ ~truncate
    /\ pc = "copy"
    /\ i = 1
    /\ log = <<Step("connect", "-"), Step("ddl", "-")>>
    /\ \A t \in Tables : before[t] > 0
    /\ Counts(db) = before

====
